---- MODULE Spec2Model ----
(***************************************************************************)
(* Unit bookkeeping of prysm's OpticalPhase (src/prysm/_phase.py): the     *)
(* alias table, the pairwise conversion-factor table, the phase_unit and   *)
(* spatial_unit properties and the two change_*_unit operations.           *)
(*                                                                         *)
(* Real numbers are exact rationals 10^e * n/d, so a conversion is         *)
(* computed, never assumed: dividing by a factor and by its supposed       *)
(* inverse gives back the original value only when the table says so.      *)
(***************************************************************************)
EXTENDS Integers, Sequences, FiniteSets, TLC

VARIABLES x, y, phase, xyunit, zunit, _phase_unit, _spatial_unit,
          wavelength, args, call, ncalls

vars == <<x, y, phase, xyunit, zunit, _phase_unit, _spatial_unit,
          wavelength, args, call, ncalls>>

\* What the object itself holds (args, call and ncalls are the record of
\* what was asked of it).
entity == <<x, y, phase, xyunit, zunit, _phase_unit, _spatial_unit, wavelength>>

----------------------------------------------------------------------------
\* Bounds of the model.

\* Calls made on one object after its construction.
MaxOps == 2

----------------------------------------------------------------------------
\* Exact arithmetic: the number 10^e * n/d, kept in the one form where d is
\* positive and coprime to 10 and to n, and n is not a multiple of 10.

Abs(i) == IF i < 0 THEN -i ELSE i

RECURSIVE GCD(_, _)
GCD(a, b) == IF b = 0 THEN a ELSE GCD(b, a % b)

RECURSIVE Strip(_, _, _)
Strip(e, n, d) ==
    IF d % 2 = 0 THEN Strip(e - 1, n * 5, d \div 2)
    ELSE IF d % 5 = 0 THEN Strip(e - 1, n * 2, d \div 5)
    ELSE IF n % 10 = 0 THEN Strip(e + 1, n \div 10, d)
    ELSE [e |-> e, n |-> n, d |-> d]

Num(e, n, d) ==
    IF n = 0 THEN [e |-> 0, n |-> 0, d |-> 1]
    ELSE LET s == IF d < 0 THEN -1 ELSE 1
             g == GCD(Abs(n), Abs(d))
         IN  Strip(e, (s * n) \div g, (s * d) \div g)

\* A Python literal 1eK, and a Python int.
P10(k) == [e |-> k, n |-> 1, d |-> 1]
Whole(i) == Num(0, i, 1)

Mul(a, b) == Num(a.e + b.e, a.n * b.n, a.d * b.d)
Div(a, b) == Num(a.e - b.e, a.n * b.d, a.d * b.n)

One == Whole(1)

\* Python's None.
None == [none |-> TRUE]

----------------------------------------------------------------------------
\* The class tables.

\* OpticalPhase.units: alias -> canonical code.
units ==
    [k \in {"m", "meter", "mm", "millimeter", "μm", "um", "micron",
            "micrometer", "nm", "nanometer", "Å", "aa", "angstrom",
            "λ", "waves", "lambda", "px", "pixel"} |->
        CASE k \in {"m", "meter"}                       -> "m"
          [] k \in {"mm", "millimeter"}                 -> "mm"
          [] k \in {"μm", "um", "micron", "micrometer"} -> "μm"
          [] k \in {"nm", "nanometer"}                  -> "nm"
          [] k \in {"Å", "aa", "angstrom"}              -> "Å"
          [] k \in {"λ", "waves", "lambda"}             -> "λ"
          [] k \in {"px", "pixel"}                      -> "px"]

Canonical == {"m", "mm", "μm", "nm", "Å", "λ", "px"}

\* The bodies of the lambdas of unit_changes: a constant c, c * x, c / x, x.
Const(c)  == [form |-> "c", c |-> c]
Times(c)  == [form |-> "c*x", c |-> c]
Over(c)   == [form |-> "c/x", c |-> c]
Arg       == [form |-> "x", c |-> One]

\* '_'.join([a, b])
join(a, b) == a \o "_" \o b

\* OpticalPhase.unit_changes, entry by entry.
unit_changes ==
    ("m_m"   :> Const(Whole(1))  @@ "m_mm"  :> Const(P10(-3))  @@
     "m_μm"  :> Const(P10(-6))   @@ "m_nm"  :> Const(P10(-9))  @@
     "m_Å"   :> Const(P10(-10))  @@ "m_λ"   :> Times(P10(-6))  @@
     "mm_mm" :> Const(Whole(1))  @@ "mm_m"  :> Const(P10(3))   @@
     "mm_μm" :> Const(P10(-3))   @@ "mm_nm" :> Const(P10(-6))  @@
     "mm_Å"  :> Const(P10(-7))   @@ "mm_λ"  :> Times(P10(-3))  @@
     "μm_μm" :> Const(Whole(1))  @@ "μm_m"  :> Const(P10(6))   @@
     "μm_mm" :> Const(P10(3))    @@ "μm_nm" :> Const(P10(-3))  @@
     "μm_Å"  :> Const(P10(-4))   @@ "μm_λ"  :> Times(Whole(1)) @@
     "nm_nm" :> Const(Whole(1))  @@ "nm_m"  :> Const(P10(9))   @@
     "nm_mm" :> Const(P10(6))    @@ "nm_μm" :> Const(P10(3))   @@
     "nm_Å"  :> Const(P10(-1))   @@ "nm_λ"  :> Times(P10(3))   @@
     "Å_Å"   :> Const(Whole(1))  @@ "Å_m"   :> Const(P10(10))  @@
     "Å_mm"  :> Const(P10(7))    @@ "Å_μm"  :> Const(P10(4))   @@
     "Å_nm"  :> Const(Whole(10)) @@ "Å_λ"   :> Times(P10(4))   @@
     "λ_λ"   :> Const(Whole(1))  @@ "λ_m"   :> Over(P10(6))    @@
     "λ_mm"  :> Over(P10(3))     @@ "λ_μm"  :> Arg             @@
     "λ_nm"  :> Over(P10(-3))    @@ "λ_Å"   :> Over(P10(-4))   @@
     "px_px" :> Const(Whole(1))  @@ "px_m"  :> Const(Whole(1)) @@
     "px_mm" :> Const(Whole(1))  @@ "px_μm" :> Const(Whole(1)) @@
     "px_nm" :> Const(Whole(1))  @@ "px_Å"  :> Const(Whole(1)) @@
     "px_λ"  :> Const(Whole(1)))

\* Calling one lambda with the wavelength w (a number or None): the value it
\* returns, or the TypeError of arithmetic on None.
TypeError == [type |-> "TypeError"]

apply(f, w) ==
    CASE f.form = "c"   -> f.c
      [] f.form = "x"   -> w
      [] f.form = "c*x" -> IF w = None THEN TypeError ELSE Mul(f.c, w)
      [] f.form = "c/x" -> IF w = None THEN TypeError ELSE Div(f.c, w)

KeyError(k) == [type |-> "KeyError", key |-> k]

\* unit_changes[key](w): KeyError when the table has no such key.
factor(key, w) ==
    IF key \notin DOMAIN unit_changes THEN KeyError(key)
    ELSE apply(unit_changes[key], w)

IsError(v) == "type" \in DOMAIN v

----------------------------------------------------------------------------
\* Strings and arrays.

\* str.lower() and str.upper() on the strings the model passes in; every
\* other string of the model is already lower case.
lower(s) ==
    CASE s = "NM" -> "nm"
      [] s = "PX" -> "px"
      [] s = "Å"  -> "å"
      [] OTHER    -> s

upper(s) ==
    CASE s = "nm" -> "NM"
      [] s = "px" -> "PX"
      [] s = "å"  -> "Å"
      [] OTHER    -> s

\* array / scalar, element by element.
DivAxis(a, f) == [i \in DOMAIN a |-> Div(a[i], f)]
DivGrid(g, f) == [r \in DOMAIN g |-> DivAxis(g[r], f)]

\* e.arange(n)
arange(n) == [i \in 1..n |-> Whole(i - 1)]

\* BasicData.shape: (rows, columns) of the data grid.
shape == <<Len(phase), Len(phase[1])>>

\* ValueError(f'{unit} not a valid unit, must be in {set(self.units.keys())}')
ValueError(unit) == [type |-> "ValueError", unit |-> unit, valid |-> DOMAIN units]

\* What an assignment that went through stored.
Stored(v) == [stored |-> v]

\* An attribute no assignment has created yet.
Unset == "<unset>"

----------------------------------------------------------------------------
\* The properties.

\* phase_unit (read)
phase_unit == xyunit

\* spatial_unit (read)
spatial_unit == zunit

\* phase_unit (assign): the value stored in _phase_unit, or the error raised.
phase_unit_setter(unit) ==
    LET u == lower(unit) IN
    IF u = "å" THEN Stored(upper(u))
    ELSE IF u \notin DOMAIN units THEN ValueError(u)
    ELSE Stored(units[u])

\* spatial_unit (assign): the value stored in _spatial_unit, or the error raised.
spatial_unit_setter(unit) ==
    LET u == lower(unit) IN
    IF u \notin DOMAIN units THEN ValueError(u)
    ELSE Stored(units[u])

----------------------------------------------------------------------------
\* Construction.

\* Strings given as units to the constructor.
CtorUnits == {"mm", "nm", "λ", "px", "micron"}

\* Wavelengths (micrometres): none, 0.5 and 3.
Wavelengths == {None, Num(-1, 5, 1), Whole(3)}

\* The axes and the grid given to the constructor: 2 rows by 3 columns.
Grids ==
    {[x |-> <<Whole(-3), Whole(0), Whole(3)>>,
      y |-> <<Whole(-1), Whole(1)>>,
      phase |-> <<<<Whole(1), Whole(2), Whole(3)>>,
                  <<Whole(4), Whole(5), Whole(6)>>>>]}

\* Strings given as units to the setters and to the change_*_unit methods.
Inputs == {"m", "mm", "μm", "nm", "Å", "λ", "px", "waves", "micron",
           "pixel", "NM", "PX", "å", "inch"}

Returned(op, to, inplace, ret, lookups) ==
    [op |-> op, to |-> to, inplace |-> inplace, err |-> None, ret |-> ret,
     lookups |-> lookups]

Threw(op, to, inplace, err, lookups) ==
    [op |-> op, to |-> to, inplace |-> inplace, err |-> err,
     ret |-> [kind |-> "raise"], lookups |-> lookups]

Self == [kind |-> "self"]

\* BasicData.__init__: the axes, the grid (under the name _data_attr gives,
\* phase) and the two unit strings become attributes, stored as given.
BasicData_init(ax, ay, data, xyu, zu) ==
    [x |-> ax, y |-> ay, phase |-> data, xyunit |-> xyu, zunit |-> zu]

\* OpticalPhase.__init__(x, y, phase, spatial_unit=su, phase_unit=pu,
\* wavelength=w): super().__init__(..., xyunit=spatial_unit,
\* zunit=phase_unit), then self.wavelength = wavelength.
Constructed(g, su, pu, w) ==
    LET base == BasicData_init(g.x, g.y, g.phase, su, pu) IN
    /\ args = [x |-> g.x, y |-> g.y, phase |-> g.phase,
               spatial_unit |-> su, phase_unit |-> pu, wavelength |-> w]
    /\ x = base.x
    /\ y = base.y
    /\ phase = base.phase
    /\ xyunit = base.xyunit
    /\ zunit = base.zunit
    /\ _phase_unit = Unset
    /\ _spatial_unit = Unset
    /\ wavelength = w
    /\ ncalls = 0

Init ==
    \E g \in Grids, su \in CtorUnits, pu \in CtorUnits, w \in Wavelengths :
        /\ Constructed(g, su, pu, w)
        /\ call = Returned("__init__", "", FALSE, Self, {})

----------------------------------------------------------------------------
\* The operations.

\* obj.phase_unit = unit
SetPhaseUnit(unit) ==
    LET r == phase_unit_setter(unit) IN
    /\ ncalls < MaxOps
    /\ ncalls' = ncalls + 1
    /\ IF IsError(r)
       THEN /\ _phase_unit' = _phase_unit
            /\ call' = Threw("phase_unit.setter", unit, TRUE, r, {})
       ELSE /\ _phase_unit' = r.stored
            /\ call' = Returned("phase_unit.setter", unit, TRUE, Self, {})
    /\ UNCHANGED <<x, y, phase, xyunit, zunit, _spatial_unit, wavelength, args>>

\* obj.spatial_unit = unit
SetSpatialUnit(unit) ==
    LET r == spatial_unit_setter(unit) IN
    /\ ncalls < MaxOps
    /\ ncalls' = ncalls + 1
    /\ IF IsError(r)
       THEN /\ _spatial_unit' = _spatial_unit
            /\ call' = Threw("spatial_unit.setter", unit, TRUE, r, {})
       ELSE /\ _spatial_unit' = r.stored
            /\ call' = Returned("spatial_unit.setter", unit, TRUE, Self, {})
    /\ UNCHANGED <<x, y, phase, xyunit, zunit, _phase_unit, wavelength, args>>

\* self.unit_changes['_'.join([current, self.units[to]])](self.wavelength),
\* then the division by what it returned: the factor, or the error raised on
\* the way, with the table keys that were looked up.
Lookup(current, to) ==
    IF to \notin DOMAIN units
    THEN [err |-> KeyError(to), lookups |-> {}]
    ELSE LET key == join(current, units[to])
             f   == factor(key, wavelength)
         IN  IF IsError(f) THEN [err |-> f, lookups |-> {key}]
             ELSE IF f = None THEN [err |-> TypeError, lookups |-> {key}]
             ELSE [err |-> None, fctr |-> f, lookups |-> {key}]

\* A slip: the assignments made whatever the flag says.
in_place_always(inplace) == TRUE

\* `if inplace:` -- whether the call assigns to the object.
in_place(inplace) == inplace

\* A slip: the shape unpacked as (columns, rows).
pixel_axes_transposed ==
    LET sx == shape[1]
        sy == shape[2]
    IN  [x |-> arange(sx), y |-> arange(sy)]

\* sy, sx = self.shape; the two index axes of the pixel branch.
pixel_axes ==
    LET sy == shape[1]
        sx == shape[2]
    IN  [x |-> arange(sx), y |-> arange(sy)]

\* obj.change_phase_unit(to, inplace)
ChangePhaseUnit(to, inplace) ==
    LET l == Lookup(phase_unit, to) IN
    /\ ncalls < MaxOps
    /\ ncalls' = ncalls + 1
    /\ IF l.err # None
       THEN /\ call' = Threw("change_phase_unit", to, inplace, l.err, l.lookups)
            /\ UNCHANGED <<phase, _phase_unit>>
       ELSE LET new_phase == DivGrid(phase, l.fctr)
                s == phase_unit_setter(to)
            IN  IF in_place(inplace)
                THEN /\ phase' = new_phase
                     /\ IF IsError(s)
                        THEN /\ _phase_unit' = _phase_unit
                             /\ call' = Threw("change_phase_unit", to, inplace,
                                              s, l.lookups)
                        ELSE /\ _phase_unit' = s.stored
                             /\ call' = Returned("change_phase_unit", to, inplace,
                                                 Self, l.lookups)
                ELSE /\ call' = Returned("change_phase_unit", to, inplace,
                                         [kind |-> "array", phase |-> new_phase],
                                         l.lookups)
                     /\ UNCHANGED <<phase, _phase_unit>>
    /\ UNCHANGED <<x, y, xyunit, zunit, _spatial_unit, wavelength, args>>

\* obj.change_spatial_unit(to, inplace)
ChangeSpatialUnit(to, inplace) ==
    LET l == IF lower(to) # "px"
             THEN Lookup(spatial_unit, to)
             ELSE [err |-> None, lookups |-> {}]
    IN
    /\ ncalls < MaxOps
    /\ ncalls' = ncalls + 1
    /\ IF l.err # None
       THEN /\ call' = Threw("change_spatial_unit", to, inplace, l.err, l.lookups)
            /\ UNCHANGED <<x, y, _spatial_unit>>
       ELSE LET new == IF lower(to) # "px"
                       THEN [x |-> DivAxis(x, l.fctr), y |-> DivAxis(y, l.fctr)]
                       ELSE pixel_axes
                s == spatial_unit_setter(to)
            IN  IF in_place(inplace)
                THEN /\ x' = new.x
                     /\ y' = new.y
                     /\ IF IsError(s)
                        THEN /\ _spatial_unit' = _spatial_unit
                             /\ call' = Threw("change_spatial_unit", to, inplace,
                                              s, l.lookups)
                        ELSE /\ _spatial_unit' = s.stored
                             /\ call' = Returned("change_spatial_unit", to, inplace,
                                                 Self, l.lookups)
                ELSE /\ call' = Returned("change_spatial_unit", to, inplace,
                                         [kind |-> "axes", x |-> new.x, y |-> new.y],
                                         l.lookups)
                     /\ UNCHANGED <<x, y, _spatial_unit>>
    /\ UNCHANGED <<phase, xyunit, zunit, _phase_unit, wavelength, args>>

Next ==
    \E u \in Inputs :
        \/ SetPhaseUnit(u)
        \/ SetSpatialUnit(u)
        \/ \E b \in BOOLEAN : ChangePhaseUnit(u, b)
        \/ \E b \in BOOLEAN : ChangeSpatialUnit(u, b)

Spec == Init /\ [][Next]_vars

----------------------------------------------------------------------------
\* The conversion table on its own: the factor of a pair of canonical
\* units at a wavelength, next to the factor of the reversed pair.

\* Positive wavelengths the table is evaluated at: 0.5, 1, 2 and 3.
TableWavelengths == {Num(-1, 5, 1), Whole(1), Whole(2), Whole(3)}

\* A default-constructed object (spatial_unit='mm', phase_unit='nm',
\* wavelength=None) and a pair of units and a wavelength still to look up.
InitTable ==
    \E g \in Grids, a \in Canonical, b \in Canonical, w \in TableWavelengths :
        /\ Constructed(g, "mm", "nm", None)
        /\ call = [op |-> "input", from |-> a, to |-> b, w |-> w]

\* OpticalPhase.unit_changes[a_b](w) and OpticalPhase.unit_changes[b_a](w)
TableLookup ==
    /\ call.op = "input"
    /\ call' = [op |-> "unit_changes", from |-> call.from, to |-> call.to,
                w |-> call.w,
                ab |-> factor(join(call.from, call.to), call.w),
                ba |-> factor(join(call.to, call.from), call.w)]
    /\ UNCHANGED <<entity, args, ncalls>>

NextTable == TableLookup

SpecTable == InitTable /\ [][NextTable]_vars

----------------------------------------------------------------------------
\* Vocabulary of the properties.

Changes == {"change_phase_unit", "change_spatial_unit"}
Setters == {"phase_unit.setter", "spatial_unit.setter"}

\* The alias-table keys that a string matches when letter case is ignored.
Matches(s) == {k \in DOMAIN units : lower(k) = lower(s)}

\* A recognised alias, in any letter case, and its canonical code.
Recognised(s) == Matches(s) # {}
CanonicalOf(s) == units[CHOOSE k \in Matches(s) : TRUE]

\* The invalid-unit error: it names the rejected string and lists the aliases.
InvalidUnit(e) == IsError(e) /\ e.type = "ValueError" /\ e.valid = DOMAIN units

\* The call c failed to resolve its own target string (as opposed to
\* failing on the table entry of a resolved pair, or on the wavelength).
TargetFailure(c) ==
    /\ c.err # None
    /\ \/ c.err = KeyError(c.to)
       \/ (c.err.type = "ValueError" /\ c.err.unit = lower(c.to))

\* The call c was a change_*_unit named op, in place, and returned.
DoneInPlace(c, op) == c.op = op /\ c.inplace /\ c.err = None

\* The calls the object has seen so far were all in-place changes that
\* returned (as far as the last call tells).
OnlyChanges(c) ==
    \/ c.op = "__init__"
    \/ (c.op \in Changes /\ c.inplace /\ c.err = None)

\* The unit handed to the constructor, as given or as its canonical code.
Given(u) == {u, CanonicalOf(u)}

\* The factor of the pair (a, b) when the table and the wavelength give one.
HasFactor(a, b, w) ==
    /\ join(a, b) \in DOMAIN unit_changes
    /\ w # None

----------------------------------------------------------------------------
\* C1: for every ordered pair of canonical units A, B and every wavelength
\* w > 0 the table gives factor(A,B,w) and factor(B,A,w), and their product
\* is 1.
C1_FactorSymmetry ==
    call.op = "unit_changes" =>
        /\ ~IsError(call.ab)
        /\ ~IsError(call.ba)
        /\ Mul(call.ab, call.ba) = One

\* C2: on an object constructed with phase in the non-pixel unit A and a
\* wavelength, an in-place change_phase_unit to a non-pixel unit B followed
\* by an in-place change_phase_unit back to A leaves phase as constructed.
C2_RoundTrip ==
    [][(/\ ncalls = 1
        /\ wavelength # None
        /\ CanonicalOf(args.phase_unit) # "px"
        /\ DoneInPlace(call, "change_phase_unit")
        /\ CanonicalOf(call.to) # "px"
        /\ DoneInPlace(call', "change_phase_unit")
        /\ ncalls' = 2
        /\ CanonicalOf(call'.to) = CanonicalOf(args.phase_unit))
       => phase' = args.phase]_vars

\* C3: right after construction phase_unit and spatial_unit read the units
\* given to the constructor; an in-place change_phase_unit that returns
\* makes phase_unit read the canonical code of its target and leaves
\* spatial_unit alone, and an in-place change_spatial_unit that returns
\* does the same with the roles exchanged.
C3_UnitsFollowChanges ==
    [][(OnlyChanges(call) /\ OnlyChanges(call') /\ ncalls' = ncalls + 1) =>
        /\ ncalls = 0 => /\ phase_unit \in Given(args.phase_unit)
                         /\ spatial_unit \in Given(args.spatial_unit)
        /\ DoneInPlace(call', "change_phase_unit") =>
              /\ phase_unit' = CanonicalOf(call'.to)
              /\ spatial_unit' = spatial_unit
        /\ DoneInPlace(call', "change_spatial_unit") =>
              /\ spatial_unit' = CanonicalOf(call'.to)
              /\ phase_unit' = phase_unit]_vars

\* C4: in every state phase_unit and spatial_unit each read one of the
\* canonical codes m, mm, μm, nm, Å, λ, px.
C4_UnitsCanonical ==
    /\ phase_unit \in Canonical
    /\ spatial_unit \in Canonical

\* C5: on an object just constructed with phase unit P and spatial unit S,
\* change_phase_unit(to, inplace=False) returns phase divided by the factor
\* of the pair (P, canonical code of to): the object's phase unit decides
\* the factor, not its spatial unit.
C5_FactorFromPhaseUnit ==
    LET P == CanonicalOf(args.phase_unit) IN
    (/\ ncalls = 1
     /\ call.op = "change_phase_unit"
     /\ ~call.inplace
     /\ call.err = None
     /\ HasFactor(P, CanonicalOf(call.to), wavelength))
    => call.ret.phase =
           DivGrid(phase, factor(join(P, CanonicalOf(call.to)), wavelength))

\* C6: change_phase_unit and change_spatial_unit resolve every recognised
\* alias whatever its letter case, and answer any other string with the
\* invalid-unit error that lists the valid aliases.
C6_TargetResolution ==
    call.op \in Changes =>
        IF Recognised(call.to)
        THEN ~TargetFailure(call)
        ELSE InvalidUnit(call.err)

\* C7: assigning a recognised alias (in any letter case) to phase_unit or
\* spatial_unit returns and stores the alias's canonical code; assigning
\* any other string raises the invalid-unit error and stores nothing.
C7_SetterNormalises ==
    [][(call'.op \in Setters /\ ncalls' = ncalls + 1) =>
        LET stored  == IF call'.op = "phase_unit.setter"
                       THEN _phase_unit' ELSE _spatial_unit'
            before  == IF call'.op = "phase_unit.setter"
                       THEN _phase_unit ELSE _spatial_unit
        IN  IF Recognised(call'.to)
            THEN call'.err = None /\ stored = CanonicalOf(call'.to)
            ELSE InvalidUnit(call'.err) /\ stored = before]_vars

\* C8: change_spatial_unit('px') returns, looks up no conversion factor,
\* and gives x = 0 .. columns-1 and y = 0 .. rows-1 of the grid (on the
\* object when in place, as the returned pair otherwise).
C8_PixelAxes ==
    (call.op = "change_spatial_unit" /\ call.to = "px") =>
        LET rows    == Len(phase)
            columns == Len(phase[1])
            ux == [i \in 1..columns |-> Whole(i - 1)]
            uy == [i \in 1..rows |-> Whole(i - 1)]
        IN  /\ call.err = None
            /\ call.lookups = {}
            /\ IF call.inplace
               THEN x = ux /\ y = uy
               ELSE call.ret.x = ux /\ call.ret.y = uy

\* C8 happens: an in-place conversion to pixels of axes that an earlier
\* conversion had rescaled, on an object whose spatial unit has no table
\* entry towards px.
C8_Witness ==
    /\ DoneInPlace(call, "change_spatial_unit")
    /\ call.to = "px"
    /\ ncalls = 2
    /\ _spatial_unit = "px"
    /\ x = <<Whole(0), Whole(1), Whole(2)>>
    /\ y = <<Whole(0), Whole(1)>>
    /\ join(spatial_unit, "px") \notin DOMAIN unit_changes

\* C9: a change_phase_unit or change_spatial_unit with inplace=False leaves
\* x, y, phase, the unit fields and the wavelength as they were, and what it
\* returns is the computed array (or pair of axes), not the object.
C9_NotInPlaceLeavesObject ==
    [][(call'.op \in Changes /\ ~call'.inplace /\ ncalls' = ncalls + 1) =>
        /\ UNCHANGED entity
        /\ call'.err = None =>
              call'.ret.kind = (IF call'.op = "change_phase_unit"
                                THEN "array" ELSE "axes")]_vars

\* C9 happens: a phase conversion that was not in place returned values
\* that differ from the phase the object still holds.
C9_Witness ==
    /\ call.op = "change_phase_unit"
    /\ ~call.inplace
    /\ call.err = None
    /\ call.ret.phase # phase
    /\ _phase_unit = Unset

\* C10: an in-place change_phase_unit or change_spatial_unit that raises
\* leaves x, y, phase and the unit fields as they were.
C10_FailureLeavesObject ==
    [][(call'.op \in Changes /\ call'.inplace /\ call'.err # None
        /\ ncalls' = ncalls + 1) => UNCHANGED entity]_vars

====
